---- MODULE Spec2Model ----
(***************************************************************************)
(* A model of the rule compiler of vuong2023/Rules: the Rule / RuleSet     *)
(* data model, the subsumption deduplicator, the patch applier, the        *)
(* serializer (src/Utils/rule.py) and the nested-include resolver          *)
(* (src/Utils/geosite.py).                                                 *)
(*                                                                         *)
(* A Python str is a sequence of one-character strings, so that split,     *)
(* strip, startswith, endswith, len and the ordering of strings are        *)
(* computed the way the code computes them.                                *)
(***************************************************************************)
EXTENDS Integers, Sequences, FiniteSets, Bags, TLC

VARIABLES
    rs,      \* the RuleSet under operation: [Type, Payload]
    pre,     \* the same RuleSet as it was before the last operation
    op,      \* the last operation: its name
    arg,     \* the last operation's Rule argument (add / remove / Rule calls)
    err,     \* the exception the last operation raised, "" when it returned
    operand, \* the right operand of a union (RuleSet.__or__)
    patch,   \* the patch file apply_patch reads: a sequence of lines
    runs,    \* how many times the patch has been applied
    file,    \* what dump left on disk: [created, ext, lines, json]
    target,  \* the target format handed to dump
    rule,    \* a Rule object (Rule.__init__ and its setters), NoRule when none
    src,     \* geosite.parse: the source lines
    excl,    \* geosite.parse: the excluded import names
    store,   \* geosite.parse: the external store of named lists
    parsed,  \* geosite.parse: what the last resolution returned
    tags,    \* geosite.convert: the excluded tags
    converted, \* geosite.convert: the set of strings it returned
    custom   \* custom_convert: the lines of the file it reads

vars == <<rs, pre, op, arg, err, operand, patch, runs, file, target, rule,
          src, excl, store, parsed, tags, converted, custom>>

----------------------------------------------------------------------------
(* Bounds of the model. *)

\* RuleSet payloads of the RuleSet specification hold at most MaxLen rules.
MaxLen == 3

\* Each operand of a union holds at most MaxUnionLen rules.
MaxUnionLen == 2

\* A patch file holds at most MaxPatchLen lines, the RuleSet it is applied to at
\* most MaxPatchRs rules at first, and it is applied at most MaxRuns times.
MaxPatchLen == 3
MaxPatchRs == 2
MaxRuns == 2

\* The RuleSet handed to dump holds at most MaxDumpLen rules.
MaxDumpLen == 2

\* geosite.parse is handed at most MaxSrc source lines, and its recursion goes at
\* most MaxDepth lists deep before the interpreter's recursion limit ends it.
MaxSrc == 3
MaxDepth == 3

\* The file custom_convert reads holds at most MaxCustom lines.
MaxCustom == 3

----------------------------------------------------------------------------
(* Python strings. *)

\* Code points of the characters the model uses: str comparison is by code point.
Ord ==
    (" " :> 32) @@ ("#" :> 35) @@ ("-" :> 45) @@ ("." :> 46) @@ ("/" :> 47) @@
    ("0" :> 48) @@ ("1" :> 49) @@ ("2" :> 50) @@ ("3" :> 51) @@ ("4" :> 52) @@
    ("5" :> 53) @@ ("6" :> 54) @@ ("7" :> 55) @@ ("8" :> 56) @@ ("9" :> 57) @@
    (":" :> 58) @@ ("@" :> 64) @@ ("A" :> 65) @@ ("B" :> 66) @@ ("C" :> 67) @@
    ("D" :> 68) @@ ("E" :> 69) @@ ("M" :> 77) @@ ("R" :> 82) @@ ("_" :> 95) @@
    ("a" :> 97) @@ ("b" :> 98) @@ ("c" :> 99) @@ ("d" :> 100) @@ ("e" :> 101) @@
    ("f" :> 102) @@ ("i" :> 105) @@ ("l" :> 108) @@ ("n" :> 110) @@
    ("u" :> 117) @@ ("x" :> 120)

Digits == {"0", "1", "2", "3", "4", "5", "6", "7", "8", "9"}

DigitVal ==
    ("0" :> 0) @@ ("1" :> 1) @@ ("2" :> 2) @@ ("3" :> 3) @@ ("4" :> 4) @@
    ("5" :> 5) @@ ("6" :> 6) @@ ("7" :> 7) @@ ("8" :> 8) @@ ("9" :> 9)

\* s < t for two str: lexicographic by code point, a proper prefix first.
RECURSIVE StrLess(_, _)
StrLess(s, t) ==
    IF t = <<>> THEN FALSE
    ELSE IF s = <<>> THEN TRUE
    ELSE IF Head(s) = Head(t) THEN StrLess(Tail(s), Tail(t))
    ELSE Ord[Head(s)] < Ord[Head(t)]

\* s.startswith(p)
startswith(s, p) == Len(p) <= Len(s) /\ SubSeq(s, 1, Len(p)) = p

\* s.endswith(p)
endswith(s, p) == Len(p) <= Len(s) /\ SubSeq(s, Len(s) - Len(p) + 1, Len(s)) = p

\* The first index at which sep occurs in s, 0 when it does not (str.find + 1).
IndexOf(s, sep) ==
    LET hits == {i \in 1..(Len(s) - Len(sep) + 1) : SubSeq(s, i, i + Len(sep) - 1) = sep}
    IN  IF hits = {} THEN 0 ELSE CHOOSE i \in hits : \A j \in hits : i <= j

\* sep in s
contains(s, sep) == IndexOf(s, sep) # 0

\* s.split(sep): the list of the parts between the occurrences of sep.
RECURSIVE split(_, _)
split(s, sep) ==
    LET i == IndexOf(s, sep)
    IN  IF i = 0 THEN <<s>>
        ELSE <<SubSeq(s, 1, i - 1)>> \o split(SubSeq(s, i + Len(sep), Len(s)), sep)

\* s.count(c) for a one-character c
count(s, c) == Cardinality({i \in 1..Len(s) : s[i] = c})

\* s.strip(chars): every leading and trailing character of the set chars removed.
strip(s, chars) ==
    LET keep == {i \in 1..Len(s) : s[i] \notin chars}
    IN  IF keep = {} THEN <<>>
        ELSE SubSeq(s, CHOOSE i \in keep : \A j \in keep : i <= j,
                       CHOOSE i \in keep : \A j \in keep : i >= j)

\* s.isdigit()
isdigit(s) == s # <<>> /\ \A i \in 1..Len(s) : s[i] \in Digits

\* int(s) of a string of digits
RECURSIVE int(_)
int(s) == IF s = <<>> THEN 0 ELSE 10 * int(SubSeq(s, 1, Len(s) - 1)) + DigitVal[s[Len(s)]]

\* Sequences over S of length at most n.
SeqsUpTo(S, n) == UNION {[1..k -> S] : k \in 0..n}

----------------------------------------------------------------------------
(* String literals of the model. *)

s_a_c     == <<"a", ".", "c">>                  \* "a.c"
s_b_a_c   == <<"b", ".", "a", ".", "c">>        \* "b.a.c"
s_xa_c    == <<"x", "a", ".", "c">>             \* "xa.c"
s_net4    == <<"1", ".", "0", ".", "0", ".", "0", "/", "8">>   \* "1.0.0.0/8"
s_net6    == <<":", ":", "1">>                  \* "::1"
s_cn      == <<"c", "n">>                       \* "cn"
s_host4   == <<"1", ".", "2", ".", "3", ".", "4">>   \* "1.2.3.4"
s_a_dot   == <<"a", ".">>                       \* "a."
s_ADD     == <<"A", "D", "D">>                  \* "ADD"
s_DOMAIN  == <<"D", "O", "M", "A", "I", "N">>   \* "DOMAIN"
s_DOMAIN_SUFFIX == s_DOMAIN \o <<"-", "S", "U", "F", "F", "I", "X">>   \* "DOMAIN-SUFFIX"
s_IP_CIDR == <<"I", "P", "-", "C", "I", "D", "R">>   \* "IP-CIDR"
s_IP_CIDR6 == s_IP_CIDR \o <<"6">>              \* "IP-CIDR6"
s_Policy  == <<",", "P", "o", "l", "i", "c", "y">>   \* ",Policy"
s_full    == <<"f", "u", "l", "l", ":">>        \* "full:"
s_include == <<"i", "n", "c", "l", "u", "d", "e", ":">>   \* "include:"
s_A       == <<"A">>                            \* the list names "A", "B", "C"
s_B       == <<"B">>
s_C       == <<"C">>
s_payload == <<"p", "a", "y", "l", "o", "a", "d", ":">>   \* "payload:"
s_item    == <<" ", " ", "-", " ", "'">>        \* "  - '"
s_REM     == <<"R", "E", "M">>                  \* "REM"

----------------------------------------------------------------------------
(* class Rule *)

RuleTypes == {"DomainSuffix", "DomainFull", "IPCIDR", "IPCIDR6"}

\* "Domain" in t, for the type names the program uses
HasDomain(t) == t \in {"DomainSuffix", "DomainFull", "Domain"}

\* "IP" in t and "IPCIDR" in t, for the type names the program uses
HasIP(t) == t \in {"IPCIDR", "IPCIDR6"}

\* An equality that compares the Tag as well.
RuleEq_tag(a, b) == a.Type = b.Type /\ a.Payload = b.Payload /\ a.Tag = b.Tag

\* Rule.__eq__ (and __hash__): Type and Payload, never Tag.
RuleEq(a, b) == a.Type = b.Type /\ a.Payload = b.Payload

\* is_ipv4addr(addr)
is_ipv4addr(addr) ==
    /\ count(addr, ".") = 3
    /\ \A i \in 1..Len(split(addr, <<".">>)) :
          LET part == split(addr, <<".">>)[i]
          IN  isdigit(part) /\ int(part) >= 0 /\ int(part) <= 255

blacklist_include ==
    {"/", "*", "=", "~", "?", "#", ",", ":", " ", "(", ")", "[", "]", "_", "|", "@", "^"}

\* is_domain(addr)
is_domain(addr) ==
    ~ ( \/ \E i \in 1..Len(addr) : addr[i] \in blacklist_include
        \/ startswith(addr, <<"-">>)
        \/ endswith(addr, <<".">>)
        \/ endswith(addr, <<"-">>)
        \/ is_ipv4addr(addr) )

\* includes with the "." of the suffix test left out.
includes_nodot(self, other) ==
    IF self.Type = "DomainSuffix"
    THEN endswith(other.Payload, self.Payload)
    ELSE IF self.Type = "DomainFull"
    THEN RuleEq(self, other)
    ELSE FALSE

\* Rule.includes(self, other); the method returns None, which is false, for an
\* IP rule.
includes(self, other) ==
    IF self.Type = "DomainSuffix"
    THEN \/ self.Payload = other.Payload
         \/ endswith(other.Payload, <<".">> \o self.Payload)
    ELSE IF self.Type = "DomainFull"
    THEN RuleEq(self, other)
    ELSE FALSE

HexVal ==
    DigitVal @@
    ("a" :> 10) @@ ("b" :> 11) @@ ("c" :> 12) @@ ("d" :> 13) @@ ("e" :> 14) @@ ("f" :> 15) @@
    ("A" :> 10) @@ ("B" :> 11) @@ ("C" :> 12) @@ ("D" :> 13) @@ ("E" :> 14) @@ ("F" :> 15)

\* int(s, 16) of a string of hexadecimal digits
RECURSIVE hex(_)
hex(s) == IF s = <<>> THEN 0 ELSE 16 * hex(SubSeq(s, 1, Len(s) - 1)) + HexVal[s[Len(s)]]

\* 2 ** n
RECURSIVE pow2(_)
pow2(n) == IF n <= 0 THEN 1 ELSE 2 * pow2(n - 1)

\* An octet of an IPv4 literal: 1 to 3 digits, no leading zero, at most 255.
ipv4_octet(s) ==
    /\ isdigit(s) /\ Len(s) <= 3
    /\ (Len(s) > 1 => s[1] # "0")
    /\ int(s) <= 255

\* The prefix length after the "/": digits, at most max.
ip_prefix(s, max) == isdigit(s) /\ Len(s) <= 3 /\ int(s) <= max

\* The low bits an address part must leave zero under prefix length p, the part
\* being the k-th of parts of width bits each.
HostBits(k, width, p) ==
    LET over == width * k - p
    IN  IF over <= 0 THEN 0 ELSE IF over >= width THEN width ELSE over

\* ipaddress.IPv4Network(payload) accepts payload (strict: no host bit set).
ipv4_network(payload) ==
    LET halves == split(payload, <<"/">>)
        octets == split(halves[1], <<".">>)
        p      == IF Len(halves) = 2 THEN int(halves[2]) ELSE 32
    IN  /\ Len(halves) <= 2
        /\ Len(octets) = 4
        /\ \A i \in 1..4 : ipv4_octet(octets[i])
        /\ (Len(halves) = 2 => ip_prefix(halves[2], 32))
        /\ \A k \in 1..4 : int(octets[k]) % pow2(HostBits(k, 8, p)) = 0

\* A group of an IPv6 literal: 1 to 4 hexadecimal digits.
ipv6_hextet(s) ==
    /\ s # <<>> /\ Len(s) <= 4
    /\ \A i \in 1..Len(s) : s[i] \in DOMAIN HexVal

\* The positions of the empty parts inside an IPv6 address cut at its ":",
\* which are where a "::" stands.
ipv6_skips(parts) == {i \in 2..(Len(parts) - 1) : parts[i] = <<>>}

\* The groups before the "::" (none when the address has no "::").
ipv6_hi(parts, skips) ==
    IF skips = {} THEN <<>>
    ELSE IF parts[1] = <<>> THEN SubSeq(parts, 2, (CHOOSE i \in skips : TRUE) - 1)
    ELSE SubSeq(parts, 1, (CHOOSE i \in skips : TRUE) - 1)

\* The groups after the "::" (all of them when the address has no "::").
ipv6_lo(parts, skips) ==
    IF skips = {} THEN parts
    ELSE IF parts[Len(parts)] = <<>>
    THEN SubSeq(parts, (CHOOSE i \in skips : TRUE) + 1, Len(parts) - 1)
    ELSE SubSeq(parts, (CHOOSE i \in skips : TRUE) + 1, Len(parts))

\* The groups are hexadecimal and, with the "::" filled with zeros, leave the
\* host bits of prefix length p zero.
ipv6_groups(hi, lo, p) ==
    /\ \A i \in 1..Len(hi) : ipv6_hextet(hi[i])
    /\ \A i \in 1..Len(lo) : ipv6_hextet(lo[i])
    /\ \A k \in 1..8 :
          hex((hi \o [i \in 1..(8 - Len(hi) - Len(lo)) |-> <<"0">>] \o lo)[k])
             % pow2(HostBits(k, 16, p)) = 0

\* The address part of an IPv6 network, cut at its ":", is an address: eight
\* groups, or fewer around one "::".
ipv6_address(parts, skips, p) ==
    /\ Len(parts) >= 3 /\ Len(parts) <= 9
    /\ Cardinality(skips) <= 1
    /\ (skips # {} /\ parts[1] = <<>> => skips = {2})
    /\ (skips # {} /\ parts[Len(parts)] = <<>> => skips = {Len(parts) - 1})
    /\ (skips # {} => Len(ipv6_hi(parts, skips)) + Len(ipv6_lo(parts, skips)) <= 7)
    /\ (skips = {} => Len(parts) = 8)
    /\ ipv6_groups(ipv6_hi(parts, skips), ipv6_lo(parts, skips), p)

\* The payload cut at its "/": an address and at most one prefix length.
ipv6_halves(halves) ==
    /\ Len(halves) <= 2
    /\ (Len(halves) = 2 => ip_prefix(halves[2], 128))
    /\ ipv6_address(split(halves[1], <<":">>), ipv6_skips(split(halves[1], <<":">>)),
                    IF Len(halves) = 2 THEN int(halves[2]) ELSE 128)

\* ipaddress.IPv6Network(payload) accepts payload (strict: no host bit set).
ipv6_network(payload) == ipv6_halves(split(payload, <<"/">>))

\* ip_network(payload) returns (it raises ValueError otherwise): the literal is
\* an IPv4 or an IPv6 network.
ip_network(payload) == ipv4_network(payload) \/ ipv6_network(payload)

\* Rule.set_type(rule_type): [err, obj]
Rule_set_type(self, rule_type) ==
    IF rule_type \notin RuleTypes
    THEN [err |-> "TypeError", obj |-> self]
    ELSE [err |-> "", obj |-> [self EXCEPT !.Type = rule_type]]

\* Rule.set_payload(payload): [err, obj]
Rule_set_payload(self, payload) ==
    IF HasDomain(self.Type) /\ ~is_domain(payload)
    THEN [err |-> "ValueError", obj |-> self]
    ELSE IF ~HasDomain(self.Type) /\ HasIP(self.Type) /\ ~ip_network(payload)
    THEN [err |-> "ValueError", obj |-> self]
    ELSE [err |-> "", obj |-> [self EXCEPT !.Payload = payload]]

\* Rule.set_tag(tag): [err, obj]
Rule_set_tag(self, tag) == [err |-> "", obj |-> [self EXCEPT !.Tag = tag]]

\* Rule(): the object of the constructor's else branch when tag is "".
NoRule == [Type |-> "", Payload |-> <<>>, Tag |-> <<>>]

\* Rule.__init__(rule_type, payload, tag): [err, obj]; no object when it raises.
Rule_init(rule_type, payload, tag) ==
    IF rule_type # "" \/ payload # <<>>
    THEN LET t == Rule_set_type(NoRule, rule_type)
             q == Rule_set_payload(t.obj, payload)
         IN  IF t.err # "" THEN t
             ELSE IF q.err # "" THEN q
             ELSE Rule_set_tag(q.obj, tag)
    ELSE [err |-> "", obj |-> [Type |-> "", Payload |-> <<>>, Tag |-> tag]]


----------------------------------------------------------------------------
(* class RuleSet *)

RuleSetTypes == {"Domain", "IPCIDR", "Combined"}

\* item in self.Payload (list membership is by Rule.__eq__)
InPayload(item, payload) == \E i \in 1..Len(payload) : RuleEq(payload[i], item)

\* RuleSet.__eq__: the types are equal and the lists are equal item by item.
RuleSetEq(a, b) ==
    /\ a.Type = b.Type
    /\ Len(a.Payload) = Len(b.Payload)
    /\ \A i \in 1..Len(a.Payload) : RuleEq(a.Payload[i], b.Payload[i])

\* RuleSet.set_payload(payload): the exception it raises, "" when it accepts.
RuleSet_set_payload(type, payload) ==
    IF type = "Domain" /\ \E i \in 1..Len(payload) : ~HasDomain(payload[i].Type)
    THEN "ValueError"
    ELSE IF type = "IPCIDR" /\ \E i \in 1..Len(payload) : ~HasIP(payload[i].Type)
    THEN "ValueError"
    ELSE IF type = "Combined"
            /\ \E i \in 1..Len(payload) : payload[i].Type \notin (RuleTypes \cup {"Classical"})
    THEN "ValueError"
    ELSE ""

\* RuleSet.__init__(ruleset_type, payload): [err, obj]; no object when it raises.
RuleSet_init(ruleset_type, payload) ==
    IF ruleset_type # "" \/ payload # <<>>
    THEN IF ruleset_type \notin RuleSetTypes
         THEN [err |-> "TypeError", obj |-> [Type |-> "", Payload |-> <<>>]]
         ELSE [err |-> RuleSet_set_payload(ruleset_type, payload),
               obj |-> [Type |-> ruleset_type, Payload |-> payload]]
    ELSE [err |-> "", obj |-> [Type |-> "", Payload |-> <<>>]]

\* RuleSet.add(rule): the payload after the call.
add(payload, r) == Append(payload, r)

\* list.remove(rule): the first item equal to rule is taken out.
remove(payload, r) ==
    LET i == CHOOSE k \in 1..Len(payload) :
                 RuleEq(payload[k], r) /\ \A j \in 1..(k - 1) : ~RuleEq(payload[j], r)
    IN  SubSeq(payload, 1, i - 1) \o SubSeq(payload, i + 1, Len(payload))

\* RuleSet.__or__(self, other): self's payload after the merge.
RECURSIVE union(_, _)
union(payload, others) ==
    IF others = <<>> THEN payload
    ELSE union(IF InPayload(Head(others), payload) THEN payload
               ELSE Append(payload, Head(others)),
               Tail(others))

\* sort_key(item) of RuleSet.sort: a tuple for a domain rule, the payload str for
\* any other.
sort_key(item) ==
    IF item.Type = "DomainSuffix"
    THEN [tuple |-> TRUE, kind |-> 0, len |-> Len(item.Payload), str |-> item.Payload]
    ELSE IF item.Type = "DomainFull"
    THEN [tuple |-> TRUE, kind |-> 1, len |-> Len(item.Payload), str |-> item.Payload]
    ELSE [tuple |-> FALSE, kind |-> 0, len |-> 0, str |-> item.Payload]

\* a < b for two keys of the same shape (tuples compare field by field).
KeyLess(a, b) ==
    IF a.tuple
    THEN \/ a.kind < b.kind
         \/ a.kind = b.kind /\ a.len < b.len
         \/ a.kind = b.kind /\ a.len = b.len /\ StrLess(a.str, b.str)
    ELSE StrLess(a.str, b.str)

\* Comparing a tuple key with a str key raises TypeError: list.sort does so as
\* soon as the list holds both shapes.
SortRaises(payload) ==
    \E i, j \in 1..Len(payload) : sort_key(payload[i]).tuple # sort_key(payload[j]).tuple

\* One step of the stable sort: x goes before the first item whose key is greater.
InsertSorted(sorted, x) ==
    LET after == {i \in 1..Len(sorted) : KeyLess(sort_key(x), sort_key(sorted[i]))}
        at    == IF after = {} THEN Len(sorted) + 1
                 ELSE CHOOSE i \in after : \A j \in after : i <= j
    IN  SubSeq(sorted, 1, at - 1) \o <<x>> \o SubSeq(sorted, at, Len(sorted))

\* self.Payload.sort(key=sort_key): list.sort is stable.
RECURSIVE list_sort(_)
list_sort(payload) ==
    IF payload = <<>> THEN <<>>
    ELSE InsertSorted(list_sort(SubSeq(payload, 1, Len(payload) - 1)), payload[Len(payload)])

\* RuleSet.sort(): the payload after a call that returns.
sort(type, payload) == IF type = "Combined" THEN payload ELSE list_sort(payload)

\* The scan of RuleSet.dedup over the (sorted) items.
RECURSIVE scan(_, _)
scan(items, list_unique) ==
    IF items = <<>> THEN list_unique
    ELSE LET item == Head(items)
             flag_unique == ~ \E i \in 1..Len(list_unique) : includes(list_unique[i], item)
         IN  scan(Tail(items), IF flag_unique THEN Append(list_unique, item) ELSE list_unique)

\* dedup with its two steps in the other order: the scan, then the sort.
dedup_scan_first(type, payload) == sort(type, scan(payload, <<>>))

\* RuleSet.dedup(): the payload after a call that returns.
dedup(type, payload) == scan(sort(type, payload), <<>>)

\* The orders a list may be left in when list.sort raises part way.
Reorderings(payload) ==
    {[i \in 1..Len(payload) |-> payload[f[i]]] : f \in Permutations(1..Len(payload))}

----------------------------------------------------------------------------
(* The values a variable holds while the specification at hand does not use it. *)

EmptyRuleSet == [Type |-> "", Payload |-> <<>>]
NoJson == [domain |-> <<>>, domain_suffix |-> <<>>, ip_cidr |-> <<>>]
NoFile == [created |-> FALSE, ext |-> "", lines |-> <<>>, written |-> FALSE, json |-> NoJson]
NoParse == [errs |-> {}, rules |-> EmptyBag, loaded |-> {}]

IdleRuleSet == rs = EmptyRuleSet /\ pre = EmptyRuleSet /\ arg = NoRule
IdleUnion   == operand = EmptyRuleSet
NoPatch == [exists |-> FALSE, lines |-> <<>>]
IdlePatch   == patch = NoPatch /\ runs = 0
IdleDump    == file = NoFile /\ target = ""
IdleRule    == rule = NoRule
IdleParse   == src = {} /\ excl = {} /\ store = <<>> /\ parsed = NoParse
IdleConvert == tags = {} /\ converted = {}
IdleCustom  == custom = <<>>

----------------------------------------------------------------------------
(* Specification Spec: one RuleSet through its constructor and its methods. *)

R(type, payload, tag) == [Type |-> type, Payload |-> payload, Tag |-> tag]

\* The rules the RuleSet specification draws from: every one is a Rule the
\* constructor accepts.
RuleCandidates ==
    { R("DomainSuffix", s_a_c, <<>>), R("DomainFull", s_a_c, <<>>),
      R("DomainSuffix", s_b_a_c, <<>>), R("DomainFull", s_b_a_c, <<>>),
      R("DomainFull", s_xa_c, <<>>),
      R("IPCIDR", s_net4, <<>>), R("IPCIDR6", s_net6, <<>>) }

Rules == {r \in RuleCandidates : Rule_init(r.Type, r.Payload, r.Tag) = [err |-> "", obj |-> r]}

\* rs = RuleSet(type, payload) for a type and a payload the constructor accepts
\* (it raises for the others, and no object exists).
Init ==
    /\ \E type \in RuleSetTypes \cup {""}, payload \in SeqsUpTo(Rules, MaxLen) :
          /\ RuleSet_init(type, payload).err = ""
          /\ rs = RuleSet_init(type, payload).obj
    /\ pre = rs
    /\ op = "construct" /\ arg = NoRule /\ err = ""
    /\ IdleUnion /\ IdlePatch /\ IdleDump /\ IdleRule /\ IdleParse /\ IdleConvert /\ IdleCustom

Others == <<operand, patch, runs, file, target, rule, src, excl, store, tags, converted, custom, parsed>>

\* rs.add(r)
Add(r) ==
    /\ Len(rs.Payload) < MaxLen
    /\ op' = "add" /\ arg' = r /\ err' = ""
    /\ pre' = rs
    /\ rs' = [rs EXCEPT !.Payload = add(@, r)]
    /\ UNCHANGED Others

\* rs.remove(r): list.remove raises ValueError when r is not in the list.
Remove(r) ==
    /\ op' = "remove" /\ arg' = r
    /\ pre' = rs
    /\ IF InPayload(r, rs.Payload)
       THEN err' = "" /\ rs' = [rs EXCEPT !.Payload = remove(@, r)]
       ELSE err' = "ValueError" /\ rs' = rs
    /\ UNCHANGED Others

\* rs.sort()
Sort ==
    /\ op' = "sort" /\ arg' = NoRule
    /\ pre' = rs
    /\ IF rs.Type # "Combined" /\ SortRaises(rs.Payload)
       THEN /\ err' = "TypeError"
            /\ \E q \in Reorderings(rs.Payload) : rs' = [rs EXCEPT !.Payload = q]
       ELSE /\ err' = ""
            /\ rs' = [rs EXCEPT !.Payload = sort(rs.Type, @)]
    /\ UNCHANGED Others

\* rs.dedup(): the TypeError of its sort propagates before the scan.
Dedup ==
    /\ op' = "dedup" /\ arg' = NoRule
    /\ pre' = rs
    /\ IF rs.Type # "Combined" /\ SortRaises(rs.Payload)
       THEN /\ err' = "TypeError"
            /\ \E q \in Reorderings(rs.Payload) : rs' = [rs EXCEPT !.Payload = q]
       ELSE /\ err' = ""
            /\ rs' = [rs EXCEPT !.Payload = dedup(rs.Type, @)]
    /\ UNCHANGED Others

Next ==
    \/ \E r \in Rules : Add(r)
    \/ \E r \in Rules : Remove(r)
    \/ Sort
    \/ Dedup

Spec == Init /\ [][Next]_vars

----------------------------------------------------------------------------
(* Claims about the RuleSet specification. *)

\* The RuleSet satisfies the homogeneity invariant: set_payload accepts it.
Homogeneous(x) == RuleSet_set_payload(x.Type, x.Payload) = ""

\* Two rules have the same identity: equal Kind and Payload.
SameIdentity(a, b) == a.Type = b.Type /\ a.Payload = b.Payload

\* How many items of payload have the identity of r.
Copies(payload, r) == Cardinality({i \in 1..Len(payload) : SameIdentity(payload[i], r)})

\* C1: inserting an IP rule into a Domain-kind RuleSet, or a domain rule into an
\* IPCIDR-kind RuleSet, with RuleSet.add fails with a validation error and
\* leaves the RuleSet as it was.
C1_AddRejectsIncompatible ==
    ( /\ op = "add"
      /\ \/ pre.Type = "Domain" /\ HasIP(arg.Type)
         \/ pre.Type = "IPCIDR" /\ HasDomain(arg.Type) )
    => (err = "ValueError" /\ rs = pre)

\* The includes relation as C2 states it.
C2_Includes(a, b) ==
    \/ /\ a.Type = "DomainSuffix"
       /\ (a.Payload = b.Payload \/ endswith(b.Payload, <<".">> \o a.Payload))
    \/ /\ a.Type = "DomainFull"
       /\ a.Type = b.Type /\ a.Payload = b.Payload

\* C2: after dedup of a Domain-kind RuleSet X of domain rules, in any insertion
\* order, the Payload holds exactly one copy of each rule of X that no rule of X
\* of another identity includes, no copy of the others, and nothing that was not
\* in X.
C2_SubsumptionCorrect ==
    (op = "dedup" /\ pre.Type = "Domain" /\ Homogeneous(pre))
    => /\ err = ""
       /\ \A i \in 1..Len(rs.Payload) :
             \E j \in 1..Len(pre.Payload) : pre.Payload[j] = rs.Payload[i]
       /\ \A j \in 1..Len(pre.Payload) :
             LET r == pre.Payload[j]
                 subsumed == \E k \in 1..Len(pre.Payload) :
                                /\ ~SameIdentity(pre.Payload[k], r)
                                /\ C2_Includes(pre.Payload[k], r)
             IN  Copies(rs.Payload, r) = IF subsumed THEN 0 ELSE 1

\* C2's case: the subsumed full domain was inserted before the suffix covering
\* it, next to a full domain that only shares the suffix's characters.
C2_Witness ==
    /\ op = "dedup" /\ err = ""
    /\ pre = [Type |-> "Domain",
              Payload |-> << R("DomainFull", s_b_a_c, <<>>), R("DomainFull", s_xa_c, <<>>),
                             R("DomainSuffix", s_a_c, <<>>) >>]
    /\ rs.Payload = << R("DomainSuffix", s_a_c, <<>>), R("DomainFull", s_xa_c, <<>>) >>

\* C3: dedup of a Combined-kind RuleSet leaves its Payload sequence as it was.
C3_DedupCombinedNoOp ==
    (op = "dedup" /\ pre.Type = "Combined") => rs = pre

\* C4: for a Domain- or IPCIDR-kind RuleSet X of rules of its kind, dedup
\* returns, and a second dedup returns a RuleSet equal (RuleSet.__eq__) to the
\* result of the first.
C4_DedupIdempotent ==
    (op = "dedup" /\ pre.Type \in {"Domain", "IPCIDR"} /\ Homogeneous(pre))
    => /\ err = ""
       /\ ~SortRaises(rs.Payload)
       /\ RuleSetEq([rs EXCEPT !.Payload = dedup(rs.Type, @)], rs)

\* C4's case: a dedup that reordered and dropped rules has just returned.
C4_Witness ==
    /\ op = "dedup" /\ err = ""
    /\ pre.Type \in {"Domain", "IPCIDR"} /\ Homogeneous(pre)
    /\ Len(pre.Payload) = 3 /\ Len(rs.Payload) = 2
    /\ rs.Payload[1] = pre.Payload[3]

----------------------------------------------------------------------------
(* Specification SpecUnion: rs | operand. *)

\* The rules of the union specification: two of them differ in Tag alone.
UnionRules ==
    {r \in { R("DomainSuffix", s_a_c, <<>>), R("DomainSuffix", s_a_c, s_cn),
             R("DomainFull", s_a_c, <<>>), R("IPCIDR", s_net4, <<>>) } :
        Rule_init(r.Type, r.Payload, r.Tag) = [err |-> "", obj |-> r]}

\* The RuleSets the constructor makes of at most n of the rules.
Constructed(rules, n) ==
    {RuleSet_init(type, payload).obj :
        <<type, payload>> \in {tp \in (RuleSetTypes \cup {""}) \X SeqsUpTo(rules, n) :
                                  RuleSet_init(tp[1], tp[2]).err = ""}}

InitUnion ==
    /\ rs \in Constructed(UnionRules, MaxUnionLen)
    /\ operand \in Constructed(UnionRules, MaxUnionLen)
    /\ pre = rs
    /\ op = "construct" /\ arg = NoRule /\ err = ""
    /\ IdlePatch /\ IdleDump /\ IdleRule /\ IdleParse /\ IdleConvert /\ IdleCustom

\* rs | operand: __or__ appends to self.Payload and returns self.
Union ==
    /\ op' = "union" /\ arg' = NoRule /\ err' = ""
    /\ pre' = rs
    /\ rs' = [rs EXCEPT !.Payload = union(@, operand.Payload)]
    /\ UNCHANGED Others

\* rs | rs: the list iterated is the list appended to, and every rule met is
\* already in it.
UnionSelf ==
    /\ op' = "union_self" /\ arg' = NoRule /\ err' = ""
    /\ pre' = rs
    /\ rs' = [rs EXCEPT !.Payload = union(@, rs.Payload)]
    /\ UNCHANGED Others

NextUnion == Union \/ UnionSelf

SpecUnion == InitUnion /\ [][NextUnion]_vars

\* No two items of the payload have the same identity.
NoTwoSame(payload) ==
    \A i, j \in 1..Len(payload) : SameIdentity(payload[i], payload[j]) => i = j

\* The identities of a payload.
Identities(payload) == {<<payload[i].Type, payload[i].Payload>> : i \in 1..Len(payload)}

\* C9: when A holds no two rules of the same identity, A | B holds none either,
\* its identities are those of A and of B, A's rules are its prefix in their
\* order, B is unchanged, and no rule of B equal to one of A up to its Tag is
\* appended.
C9_UnionKeepsUniqueness ==
    [][ (op' = "union" /\ NoTwoSame(rs.Payload))
        => /\ NoTwoSame(rs'.Payload)
           /\ Identities(rs'.Payload) = Identities(rs.Payload) \cup Identities(operand.Payload)
           /\ Len(rs'.Payload) >= Len(rs.Payload)
           /\ SubSeq(rs'.Payload, 1, Len(rs.Payload)) = rs.Payload
           /\ rs'.Type = rs.Type
           /\ operand' = operand
           /\ \A i \in (Len(rs.Payload) + 1)..Len(rs'.Payload) :
                 /\ \E j \in 1..Len(operand.Payload) : operand.Payload[j] = rs'.Payload[i]
                 /\ \A k \in 1..Len(rs.Payload) : ~SameIdentity(rs.Payload[k], rs'.Payload[i])
      ]_vars

\* C9's case: B held a rule of A under another Tag and a rule A did not hold; the
\* union appended the second alone.
C9_Witness ==
    /\ op = "union"
    /\ pre.Payload = << R("DomainSuffix", s_a_c, <<>>) >>
    /\ operand.Payload = << R("DomainSuffix", s_a_c, s_cn), R("DomainFull", s_a_c, <<>>) >>
    /\ rs.Payload = << R("DomainSuffix", s_a_c, <<>>), R("DomainFull", s_a_c, <<>>) >>

\* C16: after the dedup of a Domain- or IPCIDR-kind RuleSet of rules of its
\* kind, the Payload holds no two entries of the same identity.
C16_NoDuplicatesAfterDedup ==
    (op = "dedup" /\ err = "" /\ pre.Type \in {"Domain", "IPCIDR"} /\ Homogeneous(pre))
    => NoTwoSame(rs.Payload)

----------------------------------------------------------------------------
(* Specification SpecPatch: apply_patch(rs, name) over the same patch file. *)

\* The Rule a patch line's value names: [err, obj].
patch_rule(value) ==
    IF startswith(value, <<".">>)
    THEN Rule_init("DomainSuffix", strip(value, {"."}), <<>>)
    ELSE Rule_init("DomainFull", value, <<>>)

\* The ADD branch: the rule is added unless the RuleSet holds it.
patch_add(payload, r) == IF ~InPayload(r, payload) THEN add(payload, r) ELSE payload

\* The REM branch: the rule is removed when the RuleSet holds it.
patch_rem(payload, r) == IF InPayload(r, payload) THEN remove(payload, r) ELSE payload

\* The ADD or REM branch for the Rule made of the line's value; a value the
\* Rule constructor refuses raises its error.
patch_made(payload, word, made) ==
    IF made.err # "" THEN [err |-> made.err, payload |-> payload]
    ELSE IF word = s_ADD
    THEN [err |-> "", payload |-> patch_add(payload, made.obj)]
    ELSE [err |-> "", payload |-> patch_rem(payload, made.obj)]

\* The branches on parsed_line = line.split(":"); a line of ADD or REM alone
\* has no parsed_line[1].
patch_parsed(payload, parsed_line) ==
    IF parsed_line[1] \notin {s_ADD, s_REM} THEN [err |-> "", payload |-> payload]
    ELSE IF Len(parsed_line) < 2 THEN [err |-> "IndexError", payload |-> payload]
    ELSE patch_made(payload, parsed_line[1], patch_rule(parsed_line[2]))

\* One pass of the loop of apply_patch over a line: [err, payload].
patch_line(payload, line) ==
    IF startswith(line, <<"#">>) THEN [err |-> "", payload |-> payload]
    ELSE patch_parsed(payload, split(line, <<":">>))

\* The loop of apply_patch, in file order; an exception ends it.
RECURSIVE patch_lines(_, _)
patch_lines(payload, lines) ==
    IF lines = <<>> THEN [err |-> "", payload |-> payload]
    ELSE LET one == patch_line(payload, Head(lines))
         IN  IF one.err # "" THEN one ELSE patch_lines(one.payload, Tail(lines))

\* apply_patch(src, name): a missing patch file returns src as it is.
apply_patch(payload, patchfile) ==
    IF ~patchfile.exists THEN [err |-> "", payload |-> payload]
    ELSE patch_lines(payload, patchfile.lines)

PatchRules ==
    {r \in {R("DomainFull", s_a_c, <<>>), R("DomainSuffix", s_a_c, <<>>)} :
        Rule_init(r.Type, r.Payload, r.Tag) = [err |-> "", obj |-> r]}

\* "ADD:a.c", "REM:a.c", "ADD:.a.c", "REM:.a.c", "#ADD:a.c" and "ADD:a." (whose
\* value is no domain).
PatchLines ==
    { s_ADD \o <<":">> \o s_a_c, s_REM \o <<":">> \o s_a_c,
      s_ADD \o <<":", ".">> \o s_a_c, s_REM \o <<":", ".">> \o s_a_c,
      <<"#">> \o s_ADD \o <<":">> \o s_a_c,
      s_ADD \o <<":">> \o s_a_dot }

PatchFiles ==
    {NoPatch} \cup {[exists |-> TRUE, lines |-> l] : l \in SeqsUpTo(PatchLines, MaxPatchLen)}

InitPatch ==
    /\ rs \in Constructed(PatchRules, MaxPatchRs)
    /\ patch \in PatchFiles
    /\ runs = 0
    /\ pre = rs
    /\ op = "construct" /\ arg = NoRule /\ err = ""
    /\ IdleUnion /\ IdleDump /\ IdleRule /\ IdleParse /\ IdleConvert /\ IdleCustom

\* rs = apply_patch(rs, name): the RuleSet is changed in place, up to the line
\* that raises when one does.
ApplyPatch ==
    /\ runs < MaxRuns
    /\ runs' = runs + 1
    /\ op' = "apply_patch" /\ arg' = NoRule
    /\ pre' = rs
    /\ \E out \in {apply_patch(rs.Payload, patch)} :
          /\ err' = out.err
          /\ rs' = [rs EXCEPT !.Payload = out.payload]
    /\ UNCHANGED <<operand, patch, file, target, rule, src, excl, store, tags, converted, custom, parsed>>

NextPatch == ApplyPatch

SpecPatch == InitPatch /\ [][NextPatch]_vars

\* C5 as stated: a second application of the same patch file leaves a RuleSet
\* equal (RuleSet.__eq__) to the one the first application left.
C5_PatchTwiceEqualsOnce ==
    (op = "apply_patch" /\ runs = 2) => RuleSetEq(rs, pre)

\* The payload without the first of its rules of the identity of r.
C14_Without(payload, r) ==
    LET i == CHOOSE k \in 1..Len(payload) :
                /\ SameIdentity(payload[k], r)
                /\ \A j \in 1..(k - 1) : ~SameIdentity(payload[j], r)
    IN  SubSeq(payload, 1, i - 1) \o SubSeq(payload, i + 1, Len(payload))

\* The rule a value names: a leading "." selects DomainSuffix.
C14_RuleOf(v) ==
    IF Head(v) = "." THEN R("DomainSuffix", Tail(v), <<>>) ELSE R("DomainFull", v, <<>>)

\* The left fold of the lines over a payload: a comment changes nothing, ADD:v
\* appends v's rule iff it is not there, REM:v removes it iff it is there.
RECURSIVE C14_Fold(_, _)
C14_Fold(payload, lines) ==
    IF lines = <<>> THEN payload
    ELSE LET line == Head(lines)
             r == C14_RuleOf(SubSeq(line, 5, Len(line)))
             held == \E i \in 1..Len(payload) : SameIdentity(payload[i], r)
         IN  IF Head(line) = "#" THEN C14_Fold(payload, Tail(lines))
             ELSE IF SubSeq(line, 1, 3) = s_ADD
             THEN C14_Fold(IF held THEN payload ELSE Append(payload, r), Tail(lines))
             ELSE C14_Fold(IF held THEN C14_Without(payload, r) ELSE payload, Tail(lines))

\* The patch holds first:v and later second:v, its last line on the value v.
C14_Then(first, second, v) ==
    \E i, j \in 1..Len(patch.lines) :
       /\ i < j
       /\ patch.lines[i] = first \o <<":">> \o v
       /\ patch.lines[j] = second \o <<":">> \o v
       /\ \A k \in (j + 1)..Len(patch.lines) :
             patch.lines[k] \notin {s_ADD \o <<":">> \o v, s_REM \o <<":">> \o v}

C14_Values == {s_a_c, <<".">> \o s_a_c}

C14_Holds(payload, v) == \E i \in 1..Len(payload) : SameIdentity(payload[i], C14_RuleOf(v))

\* apply_patch is the left fold of its lines, and returns the RuleSet as it
\* was when the patch file is missing.
C14_IsFold ==
    /\ (op = "apply_patch" /\ err = "" /\ patch.exists)
       => rs = [pre EXCEPT !.Payload = C14_Fold(pre.Payload, patch.lines)]
    /\ (op = "apply_patch" /\ ~patch.exists) => (rs = pre /\ err = "")

\* ADD:v followed later by REM:v leaves v absent, REM:v followed later by
\* ADD:v leaves v present.
C14_LastLineWins ==
    (op = "apply_patch" /\ err = "" /\ patch.exists)
    => \A v \in C14_Values :
          /\ C14_Then(s_ADD, s_REM, v) => ~C14_Holds(rs.Payload, v)
          /\ C14_Then(s_REM, s_ADD, v) => C14_Holds(rs.Payload, v)

\* C14: apply_patch is the left fold of its lines in file order, so ADD:v
\* followed later by REM:v leaves v absent, REM:v followed by ADD:v leaves v
\* present, and a missing patch file returns the RuleSet unchanged.
C14_PatchInFileOrder == C14_IsFold /\ C14_LastLineWins

----------------------------------------------------------------------------
(* Specification SpecDump: dump(rs, target, dst, filename). *)

\* config.TARGETS
TARGETS ==
    {"text", "text-plus", "yaml", "surge-compatible", "clash-compatible", "geosite",
     "sing-ruleset"}

\* "text" in target, for the target names of the model
HasText(t) == t \in {"text", "text-plus"}

\* The line dump writes for a rule under a line-oriented target: [err, line].
\* The elif of the three text targets is always true ('... or "IPCIDR"').
rule_line(t, r) ==
    LET ok(line) == [err |-> "", line |-> line]
        raise == [err |-> "TypeError", line |-> <<>>]
    IN  CASE t = "text" ->
               ok(IF r.Type = "DomainSuffix" THEN <<".">> \o r.Payload ELSE r.Payload)
          [] t = "text-plus" ->
               ok(IF r.Type = "DomainSuffix" THEN <<"+", ".">> \o r.Payload ELSE r.Payload)
          [] t = "yaml" ->
               ok(IF r.Type = "DomainSuffix"
                  THEN s_item \o <<"+", ".">> \o r.Payload \o <<"'">>
                  ELSE s_item \o r.Payload \o <<"'">>)
          [] t \in {"surge-compatible", "clash-compatible"} ->
               LET tail == IF t = "clash-compatible" THEN s_Policy ELSE <<>>
               IN  CASE r.Type = "DomainSuffix" -> ok(s_DOMAIN_SUFFIX \o <<",">> \o r.Payload \o tail)
                     [] r.Type = "DomainFull" -> ok(s_DOMAIN \o <<",">> \o r.Payload \o tail)
                     [] r.Type = "IPCIDR" -> ok(s_IP_CIDR \o <<",">> \o r.Payload \o tail)
                     [] r.Type = "IPCIDR6" -> ok(s_IP_CIDR6 \o <<",">> \o r.Payload \o tail)
                     [] OTHER -> raise
          [] t = "geosite" ->
               CASE r.Type = "DomainSuffix" -> ok(r.Payload)
                 [] r.Type = "DomainFull" -> ok(s_full \o r.Payload)
                 [] OTHER -> raise
          [] OTHER -> raise

\* The loop over the rules of a line-oriented target: [err, lines]; the lines
\* written before a rule raises stay written.
RECURSIVE write_lines(_, _, _)
write_lines(t, rules, lines) ==
    IF rules = <<>> THEN [err |-> "", lines |-> lines]
    ELSE LET one == rule_line(t, Head(rules))
         IN  IF one.err # "" THEN [err |-> one.err, lines |-> lines]
             ELSE write_lines(t, Tail(rules), Append(lines, one.line))

\* The Combined branch of sing-ruleset for one rule: a rule of a kind without a
\* case adds nothing and raises nothing.
sing_combined(js, r) ==
    CASE r.Type = "DomainFull" -> [js EXCEPT !.domain = Append(@, r.Payload)]
      [] r.Type = "DomainSuffix" -> [js EXCEPT !.domain_suffix = Append(@, <<".">> \o r.Payload)]
      [] r.Type = "IPCIDR" -> [js EXCEPT !.ip_cidr = Append(@, r.Payload)]
      [] OTHER -> js

\* The loops of the sing-ruleset target: [err, json]; an array exists once a
\* rule was appended to it.
RECURSIVE sing_rules(_, _, _)
sing_rules(type, rules, js) ==
    IF rules = <<>> THEN [err |-> "", json |-> js]
    ELSE LET r == Head(rules)
         IN  CASE type = "Domain" ->
                    IF r.Type = "DomainSuffix"
                    THEN sing_rules(type, Tail(rules),
                                    [js EXCEPT !.domain_suffix = Append(@, <<".">> \o r.Payload)])
                    ELSE IF r.Type = "DomainFull"
                    THEN sing_rules(type, Tail(rules), [js EXCEPT !.domain = Append(@, r.Payload)])
                    ELSE [err |-> "TypeError", json |-> js]
               [] type = "IPCIDR" ->
                    IF r.Type \notin {"IPCIDR", "IPCIDR6"}
                    THEN [err |-> "TypeError", json |-> js]
                    ELSE sing_rules(type, Tail(rules), [js EXCEPT !.ip_cidr = Append(@, r.Payload)])
               [] OTHER -> sing_rules(type, Tail(rules), sing_combined(js, r))

\* dump returns before it opens a file: the tests of its first try block.
skips(t, type) ==
    \/ t = "geosite" /\ type \in {"IPCIDR", "Combined"}
    \/ t \notin {"yaml", "geosite", "sing-ruleset"} /\ HasText(t) /\ type = "Combined"

\* The extension dump gives the file name.
extension(t) ==
    CASE t = "yaml" -> ".yaml" [] t = "geosite" -> "" [] t = "sing-ruleset" -> ".json"
      [] OTHER -> ".txt"

\* dump(src, target, dst, filename): [err, file]. The file is opened (created,
\* with the directory when it is missing) before anything is rendered.
dump(x, t) ==
    IF skips(t, x.Type) THEN [err |-> "", file |-> NoFile]
    ELSE IF t = "sing-ruleset"
    THEN LET made == IF x.Type \in RuleSetTypes THEN sing_rules(x.Type, x.Payload, NoJson)
                     ELSE [err |-> "TypeError", json |-> NoJson]
         IN  [err |-> made.err,
              file |-> [created |-> TRUE, ext |-> extension(t), lines |-> <<>>,
                        written |-> made.err = "",
                        json |-> IF made.err = "" THEN made.json ELSE NoJson]]
    ELSE LET head == IF t = "yaml" THEN <<s_payload>> ELSE <<>>
             made == write_lines(t, x.Payload, head)
         IN  [err |-> made.err,
              file |-> [created |-> TRUE, ext |-> extension(t), lines |-> made.lines,
                        written |-> FALSE, json |-> NoJson]]

DumpRules ==
    {r \in { R("DomainSuffix", s_a_c, <<>>), R("DomainFull", s_a_c, <<>>),
             R("IPCIDR", s_net4, <<>>), R("IPCIDR6", s_net6, <<>>) } :
        Rule_init(r.Type, r.Payload, r.Tag) = [err |-> "", obj |-> r]}

\* The targets handed to dump: config.TARGETS and one dump does not know.
DumpTargets == TARGETS \cup {"plain"}

InitDump ==
    /\ rs \in Constructed(DumpRules, MaxDumpLen)
    /\ pre = rs
    /\ op = "construct" /\ arg = NoRule /\ err = ""
    /\ file = NoFile /\ target = ""
    /\ IdleUnion /\ IdlePatch /\ IdleRule /\ IdleParse /\ IdleConvert /\ IdleCustom

\* dump(rs, t, dst, filename) into an empty destination.
Dump(t) ==
    /\ op' = "dump" /\ arg' = NoRule
    /\ target' = t
    /\ err' = dump(rs, t).err
    /\ file' = dump(rs, t).file
    /\ pre' = rs
    /\ UNCHANGED <<rs, operand, patch, runs, rule, src, excl, store, tags, converted, custom, parsed>>

\* rs.add(r) before a dump
DumpAdd(r) ==
    /\ Len(rs.Payload) < MaxDumpLen
    /\ op' = "add" /\ arg' = r /\ err' = ""
    /\ pre' = rs
    /\ rs' = [rs EXCEPT !.Payload = add(@, r)]
    /\ file' = NoFile /\ target' = ""
    /\ UNCHANGED <<operand, patch, runs, rule, src, excl, store, tags, converted, custom, parsed>>

NextDump ==
    \/ \E t \in DumpTargets : Dump(t)
    \/ \E r \in DumpRules : DumpAdd(r)

SpecDump == InitDump /\ [][NextDump]_vars

\* The table C7 states: the RuleSet kinds each target accepts.
C7_Accepts(t, type) ==
    CASE t \in {"text", "text-plus", "yaml"} -> type \in {"Domain", "IPCIDR"}
      [] t \in {"surge-compatible", "clash-compatible", "sing-ruleset"} ->
             type \in {"Domain", "IPCIDR", "Combined"}
      [] t = "geosite" -> type = "Domain"
      [] OTHER -> FALSE

\* C7: dump writes an output file iff the table accepts the pair of target and
\* RuleSet kind, and creates no file otherwise.
C7_FileIffAccepted ==
    (op = "dump" /\ target \in TARGETS /\ rs.Type \in RuleSetTypes)
    => (file.created <=> C7_Accepts(target, rs.Type))

IsFull(r) == r.Type = "DomainFull"
IsSuffix(r) == r.Type = "DomainSuffix"
IsIPRule(r) == r.Type \in {"IPCIDR", "IPCIDR6"}

\* The payloads of a sequence of rules, each after prefix.
PayloadsOf(rules, prefix) == [i \in 1..Len(rules) |-> prefix \o rules[i].Payload]

\* C8: dump with target sing-ruleset of a RuleSet of any kind, holding rules of
\* its kind, raises nothing and writes every rule to the array of its kind in
\* RuleSet order (DomainFull to domain, DomainSuffix to domain_suffix after a
\* ".", IPCIDR and IPCIDR6 to ip_cidr), as many entries as there are rules.
C8_SingRulesetComplete ==
    (op = "dump" /\ target = "sing-ruleset" /\ rs.Type \in RuleSetTypes /\ Homogeneous(rs))
    => /\ err = "" /\ file.created /\ file.written
       /\ file.json.domain = PayloadsOf(SelectSeq(rs.Payload, IsFull), <<>>)
       /\ file.json.domain_suffix = PayloadsOf(SelectSeq(rs.Payload, IsSuffix), <<".">>)
       /\ file.json.ip_cidr = PayloadsOf(SelectSeq(rs.Payload, IsIPRule), <<>>)
       /\ Len(file.json.domain) + Len(file.json.domain_suffix) + Len(file.json.ip_cidr)
            = Len(rs.Payload)

----------------------------------------------------------------------------
(* Specification SpecRule: one Rule through its constructor and its setters. *)

\* The type names handed to Rule and to set_type: the four kinds, the empty
\* default and a name set_type refuses.
TypeArgs == RuleTypes \cup {"", "Classical"}

\* The payloads handed to Rule and to set_payload: "", "a.c", "a.", "1.2.3.4",
\* "1.0.0.0/8" and "::1".
PayloadArgs == {<<>>, s_a_c, s_a_dot, s_host4, s_net4, s_net6}

TagArgs == {<<>>, s_cn}

\* No Rule object exists yet.
InitRule ==
    /\ rule = NoRule
    /\ op = "start" /\ arg = NoRule /\ err = ""
    /\ IdleRuleSet /\ IdleUnion /\ IdlePatch /\ IdleDump /\ IdleParse /\ IdleConvert /\ IdleCustom

RuleFrame == <<rs, pre, arg, operand, patch, runs, file, target, src, excl, store, tags, converted, custom, parsed>>

\* rule = Rule(type, payload, tag); the variable keeps its object when the
\* constructor raises.
NewRule(type, payload, tag) ==
    LET made == Rule_init(type, payload, tag)
    IN  /\ op' = IF made.err = "" THEN "Rule" ELSE op
        /\ err' = made.err
        /\ rule' = IF made.err = "" THEN made.obj ELSE rule
        /\ UNCHANGED RuleFrame

\* rule.set_type(type)
SetType(type) ==
    /\ op # "start"
    /\ op' = "set_type"
    /\ err' = Rule_set_type(rule, type).err
    /\ rule' = Rule_set_type(rule, type).obj
    /\ UNCHANGED RuleFrame

\* rule.set_payload(payload)
SetPayload(payload) ==
    /\ op # "start"
    /\ op' = "set_payload"
    /\ err' = Rule_set_payload(rule, payload).err
    /\ rule' = Rule_set_payload(rule, payload).obj
    /\ UNCHANGED RuleFrame

\* rule.set_tag(tag)
SetTag(tag) ==
    /\ op # "start"
    /\ op' = "set_tag"
    /\ err' = Rule_set_tag(rule, tag).err
    /\ rule' = Rule_set_tag(rule, tag).obj
    /\ UNCHANGED RuleFrame

NextRule ==
    \/ \E type \in TypeArgs, payload \in PayloadArgs, tag \in TagArgs : NewRule(type, payload, tag)
    \/ \E type \in TypeArgs : SetType(type)
    \/ \E payload \in PayloadArgs : SetPayload(payload)
    \/ \E tag \in TagArgs : SetTag(tag)

SpecRule == InitRule /\ [][NextRule]_vars

\* The payload satisfies the syntax of the kind, as C10 states it.
C10_ValidFor(type, payload) ==
    CASE type \in {"DomainSuffix", "DomainFull"} -> is_domain(payload)
      [] type = "IPCIDR" -> ipv4_network(payload)
      [] type = "IPCIDR6" -> ipv6_network(payload)
      [] OTHER -> FALSE

\* C10: every Rule object that was given a kind, after any sequence of
\* constructor, set_type, set_payload and set_tag calls, has one of the four
\* kinds and a payload valid for that kind (v4 only for IPCIDR, v6 only for
\* IPCIDR6).
C10_RuleAlwaysValid ==
    (op # "start" /\ rule.Type # "")
    => (rule.Type \in RuleTypes /\ C10_ValidFor(rule.Type, rule.Payload))

----------------------------------------------------------------------------
(* Specification SpecParse: geosite.parse(src, excluded_imports). *)

\* The argument the recursive call of parse hands on with no exclusion in it.
nested_exclusions_none(excluded) == {}

\* The exclusions parse hands to its recursive call: its own.
nested_exclusions(excluded) == excluded

\* a | b of two results of parse: an exception in either ends the call.
merge(a, b) ==
    [errs |-> a.errs \cup b.errs,
     rules |-> IF a.errs \cup b.errs = {} THEN a.rules (+) b.rules ELSE EmptyBag,
     loaded |-> a.loaded \cup b.loaded]

\* One entry of the result set: a geosite.Rule object.
entry(type, payload, tag) ==
    [errs |-> {}, rules |-> SetToBag({[Type |-> type, Payload |-> payload, Tag |-> tag]}),
     loaded |-> {}]

RECURSIVE parse_list(_, _, _)
RECURSIVE parse_rest(_, _, _, _)
RECURSIVE parse_line(_, _, _)

\* One pass of the loop of parse over raw_line. The exceptions are the missing
\* list's FileNotFoundError and, fuel lists deep, the RecursionError; loaded
\* holds the names of the lists opened.
parse_line(raw_line, excluded, fuel) ==
    LET stripped == strip(split(raw_line, <<"#">>)[1], {" "})
        tagged == contains(stripped, <<"@">>)
        tag == IF tagged THEN split(stripped, <<"@">>)[2] ELSE <<>>
        line == IF tagged THEN split(stripped, <<" ", "@">>)[1] ELSE stripped
        name_import == split(line, s_include)[2]
    IN  IF stripped = <<>> THEN NoParse
        ELSE IF ~contains(line, <<":">>) THEN entry("Suffix", line, tag)
        ELSE IF startswith(line, s_full)
        THEN entry("Full", strip(line, {"f", "u", "l", ":"}), tag)
        ELSE IF startswith(line, s_include)
        THEN IF name_import \in excluded THEN NoParse
             ELSE IF name_import \notin DOMAIN store
             THEN [errs |-> {"FileNotFoundError"}, rules |-> EmptyBag, loaded |-> {}]
             ELSE IF fuel = 0
             THEN [errs |-> {"RecursionError"}, rules |-> EmptyBag, loaded |-> {name_import}]
             ELSE merge([errs |-> {}, rules |-> EmptyBag, loaded |-> {name_import}],
                        parse_list(store[name_import], nested_exclusions(excluded), fuel - 1))
        ELSE NoParse

\* parse on the lines of an included list, which it reads in file order: the
\* first line that raises ends the call, the lines after it are never read.
parse_list(lines, excluded, fuel) ==
    IF lines = <<>> THEN NoParse
    ELSE parse_rest(parse_line(Head(lines), excluded, fuel), Tail(lines), excluded, fuel)

\* The loop goes on to the rest of the list unless the last line raised.
parse_rest(one, lines, excluded, fuel) ==
    IF one.errs # {} THEN one ELSE merge(one, parse_list(lines, excluded, fuel))

\* parse(src, excluded_imports) on a source handed over as a set, which is
\* iterated in no fixed order: [errs, rules, loaded]. The call raises one of
\* errs (the exception of the line that comes first) and returns the bag rules
\* of (Type, Payload, Tag) objects when errs is empty; loaded holds the lists
\* some order opens.
RECURSIVE parse(_, _, _)
parse(lines, excluded, fuel) ==
    IF lines = {} THEN NoParse
    ELSE LET raw_line == CHOOSE l \in lines : TRUE
         IN  merge(parse_line(raw_line, excluded, fuel),
                   parse(lines \ {raw_line}, excluded, fuel))

\* "a.c", "full:a.c @cn", "full:f.c", "xa.c", "include:A", "include:B"
l_a_c    == s_a_c
l_full   == s_full \o s_a_c \o <<" ", "@">> \o s_cn
l_full_f == s_full \o <<"f", ".", "c">>
l_xa_c   == s_xa_c
l_incA   == s_include \o s_A
l_incB   == s_include \o s_B

\* The stores of named lists, each list the lines of its file: A includes B; B
\* includes A; A and B include each other; A includes the missing C and B is
\* missing; A includes the missing C and then itself, B itself and then C.
Stores ==
    { (s_A :> <<l_incB, l_a_c>>) @@ (s_B :> <<l_full, l_xa_c>>),
      (s_A :> <<l_a_c>>) @@ (s_B :> <<l_incA, l_full>>),
      (s_A :> <<l_incB, l_xa_c>>) @@ (s_B :> <<l_incA, l_a_c>>),
      (s_A :> <<s_include \o s_C, l_a_c>>),
      (s_A :> <<s_include \o s_C, l_incA>>) @@ (s_B :> <<l_incB, s_include \o s_C>>) }

\* The source lines: the lines above, "include:B @cn", "include:B # x",
\* "keyword:a" and "# x".
SrcLines ==
    { l_a_c, l_full, l_full_f, l_incA, l_incB,
      l_incB \o <<" ", "@">> \o s_cn,
      l_incB \o <<" ", "#", " ", "x">>,
      <<"k", "e", "y", "w", "o", "r", "d", ":", "a">>,
      <<"#", " ", "x">> }

InitParse ==
    /\ store \in Stores
    /\ src \in {s \in SUBSET SrcLines : Cardinality(s) <= MaxSrc}
    /\ excl \in SUBSET {s_A, s_B}
    /\ parsed = NoParse
    /\ tags = {} /\ converted = {}
    /\ op = "start" /\ err = ""
    /\ IdleRuleSet /\ IdleUnion /\ IdlePatch /\ IdleDump /\ IdleRule /\ IdleCustom

\* parsed = parse(src, excl)
Parse ==
    /\ op = "start"
    /\ op' = "parse"
    /\ parsed' = parse(src, excl, MaxDepth)
    /\ err' = IF parsed'.errs = {} THEN "" ELSE CHOOSE e \in parsed'.errs : TRUE
    /\ UNCHANGED <<rs, pre, arg, operand, patch, runs, file, target, rule, src, excl, store, tags, converted, custom>>

\* The test of convert on an entry's tag, with the tag never looked at.
convert_kept_all(input_rule, excluded_tags) == TRUE

\* input_rule.Tag not in excluded_tags
convert_kept(input_rule, excluded_tags) == input_rule.Tag \notin excluded_tags

\* What convert adds for an entry it keeps: "." and the payload for a Suffix,
\* the payload for a Full, nothing for another type.
convert_rule(input_rule) ==
    IF input_rule.Type = "Suffix" THEN {<<".">> \o input_rule.Payload}
    ELSE IF input_rule.Type = "Full" THEN {input_rule.Payload}
    ELSE {}

\* geosite.convert(src, excluded_tags): the set of strings set_converted.
convert(entries, excluded_tags) ==
    UNION {IF convert_kept(e, excluded_tags) THEN convert_rule(e) ELSE {} :
              e \in BagToSet(entries)}

\* converted = convert(parsed, excluded_tags), on what a resolution returned.
Convert(excluded_tags) ==
    /\ op = "parse" /\ parsed.errs = {}
    /\ op' = "convert"
    /\ tags' = excluded_tags
    /\ converted' = convert(parsed.rules, excluded_tags)
    /\ UNCHANGED <<rs, pre, arg, err, operand, patch, runs, file, target, rule, src, excl,
                   store, parsed, custom>>

NextParse ==
    \/ Parse
    \/ \E excluded_tags \in SUBSET {s_cn} : Convert(excluded_tags)

SpecParse == InitParse /\ [][NextParse]_vars

\* The line is an include of the list name: "include:" and the name, before
\* any tag or comment.
C6_IncludeOf(l, name) ==
    split(strip(split(l, <<"#">>)[1], {" "}), <<" ", "@">>)[1] = s_include \o name

\* C6: with a list name in the exclusion set, resolving a source that has an
\* include line of that name gives what resolving it with that line deleted
\* gives (the same entries as often, or an exception in both), and the list is
\* never opened, from whatever list it is referenced.
C6_ExclusionIsDeletion ==
    op = "parse"
    => \A name \in excl : \A l \in src :
          C6_IncludeOf(l, name)
          => LET without == parse(src \ {l}, excl, MaxDepth)
             IN  /\ parsed.errs = without.errs
                 /\ parsed.rules = without.rules
                 /\ name \notin parsed.loaded

\* C6's case: the source includes A and the excluded B, A includes B as well,
\* and the resolution returned A's own entry without opening B.
C6_Witness ==
    /\ op = "parse"
    /\ excl = {s_B}
    /\ {l_incA, l_incB} \subseteq src
    /\ store[s_A] = <<l_incB, l_a_c>>
    /\ parsed.errs = {}
    /\ BagIn([Type |-> "Suffix", Payload |-> s_a_c, Tag |-> <<>>], parsed.rules)
    /\ parsed.loaded = {s_A}

\* The body of a source line: the line without its comment, the blanks around
\* it and its tag.
C11_Body(l) == split(strip(split(l, <<"#">>)[1], {" "}), <<" ", "@">>)[1]

\* C11: for every source line whose body is "full:" and d, a resolution that
\* returns holds an entry of kind Full whose payload is d, the body without its
\* first five characters and nothing else removed.
C11_FullPayloadIsBody ==
    (op = "parse" /\ parsed.errs = {})
    => \A l \in src :
          startswith(C11_Body(l), s_full)
          => \E e \in BagToSet(parsed.rules) :
                /\ e.Type = "Full"
                /\ e.Payload = SubSeq(C11_Body(l), Len(s_full) + 1, Len(C11_Body(l)))

\* The string convert's output holds for an entry: a DomainSuffix is written
\* "." and its payload, a DomainFull its payload.
C13_Text(e) == IF e.Type = "Suffix" THEN <<".">> \o e.Payload ELSE e.Payload

C15_Edge(n, m) ==
    /\ m \notin excl
    /\ \E i \in 1..Len(store[n]) : C6_IncludeOf(store[n][i], m)

\* The lists of the store the source includes, exclusions apart.
C15_Start ==
    {m \in DOMAIN store : m \notin excl /\ \E l \in src : C6_IncludeOf(l, m)}

\* The lists of the store reached from the lists S in at most k includes.
RECURSIVE C15_Reach(_, _)
C15_Reach(S, k) ==
    IF k = 0 THEN S
    ELSE C15_Reach(S \cup {m \in DOMAIN store : \E n \in S : C15_Edge(n, m)}, k - 1)

C15_Reachable == C15_Reach(C15_Start, Cardinality(DOMAIN store))

\* A list reachable from the source transitively includes itself.
C15_CycleReachable ==
    \E n \in C15_Reachable :
       n \in C15_Reach({m \in DOMAIN store : C15_Edge(n, m)}, Cardinality(DOMAIN store))

\* The source or a list reachable from it includes a list the store lacks.
C15_MissingReachable ==
    \E m \in {s_A, s_B, s_C} \ (DOMAIN store \cup excl) :
       \/ \E l \in src : C6_IncludeOf(l, m)
       \/ \E n \in C15_Reachable : \E i \in 1..Len(store[n]) : C6_IncludeOf(store[n][i], m)

----------------------------------------------------------------------------
(* Specification SpecCustom: custom_convert(src). *)

s_Domain   == <<"D", "o", "m", "a", "i", "n">>
s_IPCIDR   == <<"I", "P", "C", "I", "D", "R">>
s_Combined == <<"C", "o", "m", "b", "i", "n", "e", "d">>

\* The type name spelled by the characters after the header's "@"; a name that
\* is none of RuleSet's is "other".
type_name(s) ==
    IF s = s_Domain THEN "Domain"
    ELSE IF s = s_IPCIDR THEN "IPCIDR"
    ELSE IF s = s_Combined THEN "Combined"
    ELSE IF s = <<>> THEN ""
    ELSE "other"

\* ruleset_type: src_custom[0].split("@")[1], and "Domain" on the IndexError of
\* an empty file or of a first line without "@".
custom_type(src_custom) ==
    IF src_custom = <<>> THEN "Domain"
    ELSE IF Len(split(src_custom[1], <<"@">>)) < 2 THEN "Domain"
    ELSE type_name(split(src_custom[1], <<"@">>)[2])

\* ruleset_converted.add(Rule(...)): the constructor's error ends the call.
custom_made(payload, made) ==
    IF made.err # "" THEN [err |-> made.err, payload |-> payload]
    ELSE [err |-> "", payload |-> add(payload, made.obj)]

\* The loop body of case "Domain".
custom_domain(payload, line) ==
    IF startswith(line, <<".">>)
    THEN custom_made(payload, Rule_init("DomainSuffix", strip(line, {"."}), <<>>))
    ELSE IF line # <<>> /\ ~startswith(line, <<"#">>)
    THEN custom_made(payload, Rule_init("DomainFull", line, <<>>))
    ELSE [err |-> "", payload |-> payload]

\* The loop body of case "IPCIDR".
custom_ipcidr(payload, line) ==
    IF line # <<>> /\ ~startswith(line, <<"#">>)
    THEN IF contains(line, <<":">>)
         THEN custom_made(payload, Rule_init("IPCIDR6", line, <<>>))
         ELSE custom_made(payload, Rule_init("IPCIDR", line, <<>>))
    ELSE [err |-> "", payload |-> payload]

\* The match on parsed = line.split(",") of case "Combined"; a keyword with no
\* "," after it has no fields[1].
custom_parsed(payload, fields) ==
    IF fields[1] \notin {s_DOMAIN, s_DOMAIN_SUFFIX, s_IP_CIDR, s_IP_CIDR6}
    THEN [err |-> "ValueError", payload |-> payload]
    ELSE IF Len(fields) < 2 THEN [err |-> "IndexError", payload |-> payload]
    ELSE custom_made(payload,
            Rule_init(IF fields[1] = s_DOMAIN THEN "DomainFull"
                      ELSE IF fields[1] = s_DOMAIN_SUFFIX THEN "DomainSuffix"
                      ELSE IF fields[1] = s_IP_CIDR THEN "IPCIDR"
                      ELSE "IPCIDR6",
                      fields[2], <<>>))

\* The loop body of case "Combined".
custom_combined(payload, line) ==
    IF line # <<>> /\ ~startswith(line, <<"#">>)
    THEN custom_parsed(payload, split(line, <<",">>))
    ELSE [err |-> "", payload |-> payload]

\* One pass of the loop of the matched case over a line: [err, payload].
custom_line(type, payload, line) ==
    IF type = "Domain" THEN custom_domain(payload, line)
    ELSE IF type = "IPCIDR" THEN custom_ipcidr(payload, line)
    ELSE custom_combined(payload, line)

\* The loop "for line in src_custom" of the matched case; an exception ends it.
RECURSIVE custom_lines(_, _, _)
RECURSIVE custom_next(_, _, _)
custom_lines(type, payload, lines) ==
    IF lines = <<>> THEN [err |-> "", payload |-> payload]
    ELSE custom_next(type, custom_line(type, payload, Head(lines)), Tail(lines))

\* The loop goes on to the next line unless the last one raised.
custom_next(type, one, lines) ==
    IF one.err # "" THEN one ELSE custom_lines(type, one.payload, lines)

\* return ruleset_converted, or the exception of the loop.
custom_loaded(type, out) ==
    IF out.err # "" THEN [err |-> out.err, obj |-> EmptyRuleSet]
    ELSE [err |-> "", obj |-> [Type |-> type, Payload |-> out.payload]]

\* The body of custom_convert after RuleSet(ruleset_type, []): [err, obj].
custom_filled(made, src_custom) ==
    IF made.err # "" THEN [err |-> made.err, obj |-> EmptyRuleSet]
    ELSE IF made.obj.Type \notin RuleSetTypes THEN made
    ELSE custom_loaded(made.obj.Type, custom_lines(made.obj.Type, <<>>, src_custom))

\* custom_convert(src): [err, obj]; the loop runs over every line of the file,
\* the first included.
custom_convert(src_custom) ==
    custom_filled(RuleSet_init(custom_type(src_custom), <<>>), src_custom)

\* "@Domain", "#@Domain", "@IPCIDR", "#@IPCIDR", "@Combined", "#@Combined",
\* ".a.c", "a.c", "1.0.0.0/8", "::1", "DOMAIN,a.c", "IP-CIDR6,::1" and "".
CustomLines ==
    { <<"@">> \o s_Domain, <<"#", "@">> \o s_Domain,
      <<"@">> \o s_IPCIDR, <<"#", "@">> \o s_IPCIDR,
      <<"@">> \o s_Combined, <<"#", "@">> \o s_Combined,
      <<".">> \o s_a_c, s_a_c, s_net4, s_net6,
      s_DOMAIN \o <<",">> \o s_a_c, s_IP_CIDR6 \o <<",">> \o s_net6,
      <<>> }

InitCustom ==
    /\ custom \in SeqsUpTo(CustomLines, MaxCustom)
    /\ op = "start" /\ err = ""
    /\ IdleRuleSet /\ IdleUnion /\ IdlePatch /\ IdleDump /\ IdleRule /\ IdleParse
    /\ IdleConvert

\* rs = custom_convert(src); no RuleSet is bound when the call raises.
CustomConvert ==
    /\ op = "start"
    /\ op' = "custom_convert"
    /\ \E out \in {custom_convert(custom)} :
          /\ err' = out.err
          /\ rs' = out.obj
    /\ UNCHANGED <<pre, arg, operand, patch, runs, file, target, rule, src, excl, store,
                   parsed, tags, converted, custom>>

NextCustom == CustomConvert

SpecCustom == InitCustom /\ [][NextCustom]_vars

\* The rule lines of a custom file of a kind, and the Rule each stands for.
C12_Lines(kind) ==
    IF kind = "Domain" THEN {<<".">> \o s_a_c, s_a_c}
    ELSE IF kind = "IPCIDR" THEN {s_net4, s_net6}
    ELSE {s_DOMAIN \o <<",">> \o s_a_c, s_IP_CIDR6 \o <<",">> \o s_net6}

C12_RuleOf(kind, line) ==
    IF kind = "Domain"
    THEN IF Head(line) = "." THEN R("DomainSuffix", Tail(line), <<>>)
         ELSE R("DomainFull", line, <<>>)
    ELSE IF kind = "IPCIDR"
    THEN IF \E i \in 1..Len(line) : line[i] = ":" THEN R("IPCIDR6", line, <<>>)
         ELSE R("IPCIDR", line, <<>>)
    ELSE IF line = s_DOMAIN \o <<",">> \o s_a_c THEN R("DomainFull", s_a_c, <<>>)
    ELSE R("IPCIDR6", s_net6, <<>>)

C12_Header(kind) ==
    IF kind = "Domain" THEN <<"@">> \o s_Domain
    ELSE IF kind = "IPCIDR" THEN <<"@">> \o s_IPCIDR
    ELSE <<"@">> \o s_Combined

\* C12: for a file whose first line is the header "@Domain", "@IPCIDR" or
\* "@Combined" and whose other lines are rule lines of that kind,
\* custom_convert raises nothing and returns a RuleSet of that kind holding the
\* rules of the other lines, in their order, and none for the header.
C12_HeaderSelectsKind ==
    \A kind \in RuleSetTypes :
       ( /\ op = "custom_convert"
         /\ custom # <<>>
         /\ custom[1] = C12_Header(kind)
         /\ \A i \in 2..Len(custom) : custom[i] \in C12_Lines(kind) )
       => /\ err = ""
          /\ rs.Type = kind
          /\ rs.Payload = [i \in 1..(Len(custom) - 1) |-> C12_RuleOf(kind, custom[i + 1])]

====
